---- MODULE Spec2Model ----
(***************************************************************************)
(* Verification model of solidchair: the table router (getTableData,       *)
(* updateCell, createRow, createBulkRows, createColumn) and the            *)
(* VirtualizedDataTable grid (infinite query cache, edit controller,       *)
(* optimistic updateCell mutation).                                        *)
(*                                                                         *)
(* Conventions                                                             *)
(*   - an optional value (null | x) is a sequence of length 0 or 1;        *)
(*   - a cursor is an integer, NULL standing for null;                     *)
(*   - a cell value (a string) is a sequence of characters, <<>> = "";     *)
(*   - ids (cuid) are integers handed out in creation order, so            *)
(*     "orderBy id asc" is creation order.                                 *)
(***************************************************************************)
EXTENDS Integers, Sequences, FiniteSets, TLC

VARIABLES
    db,         \* server: [columns, rows, cells, nextId]
    op,         \* server: name of the last router procedure that completed
    call,       \* server: <<[input, result]>> of the last getTableData call, <<>> once
                \* a mutation has completed since
    pending,    \* server: the procedure calls in progress, with their local variables
    editingCell,          \* grid: useState editingCell, <<>> when null
    searchTerm,           \* grid: useState searchTerm
    debouncedSearchTerm,  \* grid: useDebounce(searchTerm, 300)
    filterColumn,         \* grid: useState filterColumn, 0 when null
    sorting,              \* grid: useState sorting, <<>> when null
    cache,                \* grid: the query client's getTableData entries, by query key
    mutations,            \* grid: the updateCell mutations that have not settled
    commits,              \* grid: number of updateCell.mutate calls so far
    rejected              \* grid: the <<cell id, value>> commits that ended in onError

gridVars == <<editingCell, searchTerm, debouncedSearchTerm, filterColumn, sorting,
              cache, mutations, commits, rejected>>

vars == <<db, op, call, pending, editingCell, searchTerm, debouncedSearchTerm, filterColumn,
          sorting, cache, mutations, commits, rejected>>

----------------------------------------------------------------------------
(* Bounds of the model                                                     *)

MaxRows == 3

MaxCols == 3

MaxLimit == 2

MaxCursor == 2

MaxCount == 3

(* createColumn calls in progress at a time *)
MaxCalls == 2

(* createBulkRows: const batchSize = 1000, scaled down *)
batchSize == 2

NULL == -1

TableId == 1

----------------------------------------------------------------------------
(* Generic helpers                                                         *)

Min(a, b) == IF a < b THEN a ELSE b

Max(a, b) == IF a > b THEN a ELSE b

Range(s) == {s[i] : i \in 1..Len(s)}

(* Array.prototype.map *)
Map(s, F(_)) == [i \in 1..Len(s) |-> F(s[i])]

(* take / skip of Prisma findMany, LIMIT / OFFSET *)
Window(s, skip, take) == SubSeq(s, skip + 1, Min(Len(s), skip + take))

(* rows.pop() *)
Pop(s) == SubSeq(s, 1, Len(s) - 1)

(* Math.ceil(a / b) for a >= 0, b > 0 *)
(* variant: rounded down *)
CeilFloor(a, b) == a \div b

(* Math.ceil(a / b) *)
Ceil(a, b) == (a + b - 1) \div b

----------------------------------------------------------------------------
(* Strings as character sequences                                          *)

Lower(ch) ==
    CASE ch = "A" -> "a"
      [] ch = "B" -> "b"
      [] OTHER -> ch

LowerStr(s) == Map(s, Lower)

(* value contains query, mode: "insensitive" *)
ContainsInsensitive(value, query) ==
    \E k \in 0..(Len(value) - Len(query)) :
        LowerStr(SubSeq(value, k + 1, k + Len(query))) = LowerStr(query)

(* utils/faker generateCellValue(columnType, columnName): a black box that *)
(* returns a non-empty string for the types "number" and "text", and ""    *)
(* otherwise.                                                              *)
GeneratedValues(type) ==
    CASE type = "number" -> {<<"1">>}
      [] type = "text" -> {<<"a">>, <<"A", "b">>}
      [] OTHER -> {<<>>}

----------------------------------------------------------------------------
(* The database (Prisma schema: Table, Column, Row, Cell)                  *)

(* table.create: a new table gets the columns Title (text) and Number *)
DefaultColumns ==
    << [id |-> 1, type |-> "text", order |-> 0, tableId |-> TableId],
       [id |-> 2, type |-> "number", order |-> 1, tableId |-> TableId] >>

EmptyDb ==
    [columns |-> DefaultColumns, rows |-> <<>>, cells |-> <<>>, nextId |-> 3]

(* db.column.findMany({ where: { tableId } }) *)
ColumnsOf(d, t) == SelectSeq(d.columns, LAMBDA c : c.tableId = t)

RECURSIVE InsertByOrder(_, _)
InsertByOrder(sorted, c) ==
    IF sorted = <<>> THEN <<c>>
    ELSE IF Head(sorted).order <= c.order
         THEN <<Head(sorted)>> \o InsertByOrder(Tail(sorted), c)
         ELSE <<c>> \o sorted

RECURSIVE SortByOrder(_)
SortByOrder(s) ==
    IF s = <<>> THEN <<>>
    ELSE InsertByOrder(SortByOrder(SubSeq(s, 1, Len(s) - 1)), s[Len(s)])

(* db.column.findMany({ where: { tableId }, orderBy: { order: "asc" } }) *)
OrderedColumns(d, t) == SortByOrder(ColumnsOf(d, t))

(* db.row.findMany({ where: { tableId }, orderBy: { id: "asc" } }) *)
RowsOf(d, t) == SelectSeq(d.rows, LAMBDA r : r.tableId = t)

(* include: { cells: ... } *)
CellsOfRow(d, rowId) == SelectSeq(d.cells, LAMBDA c : c.rowId = rowId)

WithCells(d, r) == [id |-> r.id, cells |-> CellsOfRow(d, r.id)]

(* db.row.create / db.row.createMany: n new rows of table t *)
RowCreateMany(d, t, n) ==
    [d EXCEPT !.rows = @ \o [i \in 1..n |-> [id |-> d.nextId + i - 1, tableId |-> t]],
              !.nextId = @ + n]

(* db.cell.createMany({ data }): data is a sequence of [value, rowId, columnId] *)
CellCreateMany(d, data) ==
    [d EXCEPT !.cells = @ \o [i \in 1..Len(data) |->
                                [id |-> d.nextId + i - 1, rowId |-> data[i].rowId,
                                 columnId |-> data[i].columnId, value |-> data[i].value]],
              !.nextId = @ + Len(data)]

(* db.cell.update({ where: { id }, data: { value } }) *)
CellUpdate(d, id, value) ==
    [d EXCEPT !.cells = [i \in 1..Len(@) |->
                           IF @[i].id = id THEN [@[i] EXCEPT !.value = value] ELSE @[i]]]

CellExists(d, id) == \E i \in 1..Len(d.cells) : d.cells[i].id = id

----------------------------------------------------------------------------
(* table router: getTableData                                              *)

ColumnTypes == {"text", "number"}

NoFilter == <<>>

NoSort == <<>>

ErrorResult ==
    [ok |-> FALSE, rows |-> <<>>, columns |-> <<>>, nextCursor |-> NULL, totalCount |-> 0]

(* variant: one more page is announced as soon as the page is full *)
PageResultFullPage(found, columns, skip, limit, totalRowsCount) ==
    LET hasMore == Len(found) >= limit
    IN [ok |-> TRUE,
        rows |-> IF Len(found) > limit THEN Pop(found) ELSE found,
        columns |-> columns,
        nextCursor |-> IF hasMore THEN skip + limit ELSE NULL,
        totalCount |-> totalRowsCount]

(* const hasMore = rows.length > limit; if (hasMore) rows.pop();           *)
(* return { rows, columns, nextCursor: hasMore ? (cursor || 0) + limit : null, totalCount } *)
PageResult(found, columns, skip, limit, totalRowsCount) ==
    LET hasMore == Len(found) > limit
    IN [ok |-> TRUE,
        rows |-> IF hasMore THEN Pop(found) ELSE found,
        columns |-> columns,
        nextCursor |-> IF hasMore THEN skip + limit ELSE NULL,
        totalCount |-> totalRowsCount]

(* variant: the filter compares the letters with their case *)
MatchesFilterWithCase(d, r, f) ==
    \E i \in 1..Len(d.cells) :
        /\ d.cells[i].rowId = r.id
        /\ d.cells[i].columnId = f.columnId
        /\ \E k \in 0..(Len(d.cells[i].value) - Len(f.query)) :
              SubSeq(d.cells[i].value, k + 1, k + Len(f.query)) = f.query

(* where: { tableId, cells: { some: { columnId, value: { contains, mode: "insensitive" } } } } *)
MatchesFilter(d, r, f) ==
    \E i \in 1..Len(d.cells) :
        /\ d.cells[i].rowId = r.id
        /\ d.cells[i].columnId = f.columnId
        /\ ContainsInsensitive(d.cells[i].value, f.query)

(* filters?.columnId && filters.query: both present and not the empty string *)
FilterActive(input) ==
    /\ input.filters # NoFilter
    /\ input.filters[1].columnId # 0
    /\ input.filters[1].query # <<>>

(* The raw query of the sort path.  $queryRaw is called as a tagged        *)
(* template, so every ${...} is sent as a bind parameter, the direction    *)
(* included: the statement reads ORDER BY c.value $3 LIMIT $4 OFFSET $5,   *)
(* which PostgreSQL rejects (syntax error at or near "$3").  The query     *)
(* throws for both directions and the procedure fails.                     *)
QueryRawSorted(d, t, by, take, skip) == [ok |-> FALSE, rows |-> <<>>]

(* variant: the filter is looked at before the sort descriptor *)
getTableDataFilterFirst(d, input) ==
    LET columns == OrderedColumns(d, input.tableId)
        totalRowsCount == Len(RowsOf(d, input.tableId))
        skip == IF input.cursor = NULL THEN 0 ELSE input.cursor
        take == input.limit + 1
    IN IF FilterActive(input)
       THEN LET matching == SelectSeq(RowsOf(d, input.tableId),
                                      LAMBDA r : MatchesFilter(d, r, input.filters[1]))
                found == Map(Window(matching, skip, take), LAMBDA r : WithCells(d, r))
            IN PageResult(found, columns, skip, input.limit, totalRowsCount)
       ELSE IF input.sorting # NoSort
       THEN ErrorResult
       ELSE LET found == Map(Window(RowsOf(d, input.tableId), skip, take),
                             LAMBDA r : WithCells(d, r))
            IN PageResult(found, columns, skip, input.limit, totalRowsCount)

getTableData(d, input) ==
    LET columns == OrderedColumns(d, input.tableId)
        totalRowsCount == Len(RowsOf(d, input.tableId))
        skip == IF input.cursor = NULL THEN 0 ELSE input.cursor
        take == input.limit + 1
    IN IF input.sorting # NoSort
       THEN LET raw == QueryRawSorted(d, input.tableId, input.sorting[1], take, skip)
            IN IF ~raw.ok THEN ErrorResult
               ELSE IF raw.rows = <<>>
                    THEN [ok |-> TRUE, rows |-> <<>>, columns |-> columns,
                          nextCursor |-> NULL, totalCount |-> totalRowsCount]
                    ELSE PageResult(Map(raw.rows, LAMBDA r : WithCells(d, r)),
                                    columns, skip, input.limit, totalRowsCount)
       ELSE IF FilterActive(input)
       THEN LET matching == SelectSeq(RowsOf(d, input.tableId),
                                      LAMBDA r : MatchesFilter(d, r, input.filters[1]))
                found == Map(Window(matching, skip, take), LAMBDA r : WithCells(d, r))
            IN PageResult(found, columns, skip, input.limit, totalRowsCount)
       ELSE LET found == Map(Window(RowsOf(d, input.tableId), skip, take),
                             LAMBDA r : WithCells(d, r))
            IN PageResult(found, columns, skip, input.limit, totalRowsCount)

----------------------------------------------------------------------------
(* table router: createRow, createColumn, createBulkRows, updateCell       *)

(* createRow: row.create, column.findMany, cell.createMany of "" *)
createRow(d, t) ==
    LET d1 == RowCreateMany(d, t, 1)
        row == d1.rows[Len(d1.rows)]
        columns == ColumnsOf(d1, t)
    IN IF Len(columns) > 0
       THEN CellCreateMany(d1, Map(columns, LAMBDA c :
                [value |-> <<>>, rowId |-> row.id, columnId |-> c.id]))
       ELSE d1

(* variant: the new column gets no cells for the existing rows *)
createColumnNoCells(d, t, type) ==
    [d EXCEPT !.columns = Append(@, [id |-> d.nextId, type |-> type,
                                     order |-> Len(ColumnsOf(d, t)), tableId |-> t]),
              !.nextId = @ + 1]

(* createColumn: column.count, column.create, row.findMany, cell.createMany of "" *)
createColumn(d, t, type) ==
    LET columnCount == Len(ColumnsOf(d, t))
        column == [id |-> d.nextId, type |-> type, order |-> columnCount, tableId |-> t]
        d1 == [d EXCEPT !.columns = Append(@, column), !.nextId = @ + 1]
        rows == RowsOf(d1, t)
    IN IF Len(rows) > 0
       THEN CellCreateMany(d1, Map(rows, LAMBDA r :
                [value |-> <<>>, rowId |-> r.id, columnId |-> column.id]))
       ELSE d1

(* db.row.findMany({ where: { tableId }, orderBy: { id: "desc" }, take: n }) *)
NewestRows(d, t, n) ==
    LET rows == RowsOf(d, t)
        m == Min(n, Len(rows))
    IN [i \in 1..m |-> rows[Len(rows) - i + 1]]

(* for (const row of newRows) cell.createMany(columns.map(...)) *)
RECURSIVE BulkCells(_, _, _, _, _)
BulkCells(d, newRows, columns, gen, k) ==
    IF newRows = <<>> THEN d
    ELSE BulkCells(
           CellCreateMany(d, Map(columns, LAMBDA c :
               [value |-> gen[k][c.type], rowId |-> Head(newRows).id, columnId |-> c.id])),
           Tail(newRows), columns, gen, k + 1)

(* one pass of the batch loop *)
BulkBatch(d, t, columns, count, createdCount, gen) ==
    LET currentBatchSize == Min(batchSize, count - createdCount)
        d1 == RowCreateMany(d, t, currentBatchSize)
        newRows == NewestRows(d1, t, currentBatchSize)
    IN BulkCells(d1, newRows, columns, gen, createdCount + 1)

RECURSIVE BulkLoop(_, _, _, _, _, _, _, _)
BulkLoop(d, t, columns, count, createdCount, i, batches, gen) ==
    IF i >= batches THEN [db |-> d, count |-> createdCount, sizes |-> <<>>]
    ELSE LET currentBatchSize == Min(batchSize, count - createdCount)
             rest == BulkLoop(BulkBatch(d, t, columns, count, createdCount, gen), t,
                              columns, count, createdCount + currentBatchSize, i + 1,
                              batches, gen)
         IN [rest EXCEPT !.sizes = <<currentBatchSize>> \o @]

(* createBulkRows: columns read once, then ceil(count / batchSize) batches *)
createBulkRows(d, t, count, gen) ==
    BulkLoop(d, t, ColumnsOf(d, t), count, 0, 0, Ceil(count, batchSize), gen)

(* one generated value per column type, drawn for every row of a call *)
Generators(count) ==
    [1..count -> {g \in [ColumnTypes -> UNION {GeneratedValues(ty) : ty \in ColumnTypes}] :
                     \A ty \in ColumnTypes : g[ty] \in GeneratedValues(ty)}]

----------------------------------------------------------------------------
(* The router as a state machine: one procedure call per step              *)

Cursors == {NULL} \cup 0..MaxCursor

FilterQueries == {<<>>, <<"a">>, <<"B">>}

(* the grid filters on the Title column and sorts on the Number column *)
FilterColumns == {1}

SortColumns == {2}

ColumnIdsOf(d) == {d.columns[i].id : i \in 1..Len(d.columns)}

Filters ==
    {NoFilter} \cup {<<[columnId |-> c, query |-> q]>> : c \in FilterColumns, q \in FilterQueries}

Sortings ==
    {NoSort} \cup {<<[columnId |-> c, direction |-> dir]>> :
                      c \in SortColumns, dir \in {"asc", "desc"}}

(* first pages of the unfiltered, unsorted view *)
PlainInputs ==
    [tableId : {TableId}, cursor : {NULL}, limit : {MaxLimit}, filters : {NoFilter},
     sorting : {NoSort}]

Inputs(d) ==
    [tableId : {TableId}, cursor : Cursors, limit : 1..MaxLimit,
     filters : Filters, sorting : Sortings]

(* limit: z.number().min(1).max(100) *)
LimitMin == 1

LimitMax == 100

(* count: z.number().min(1).max(100000) *)
CountMin == 1

CountMax == 100000

(* the failure of a procedure whose input does not parse: the resolver     *)
(* does not run                                                            *)
BadRequest == [ok |-> FALSE, code |-> "BAD_REQUEST"]

(* the input schema of getTableData *)
ParseGetTableData(input) == input.limit >= LimitMin /\ input.limit <= LimitMax

(* variant: the schema of createBulkRows has no lower bound *)
ParseCreateBulkRowsNoMin(count) == count <= CountMax

(* the input schema of createBulkRows *)
ParseCreateBulkRows(count) == count >= CountMin /\ count <= CountMax

(* variant: the query deletes the cells it has read *)
GetTableDataCallWriting(input) ==
    /\ call' = <<[input |-> input, result |-> getTableData(db, input),
                  again |-> (call # <<>> /\ call[1].input = input)]>>
    /\ op' = "getTableData"
    /\ db' = [db EXCEPT !.cells = <<>>]
    /\ UNCHANGED <<pending, gridVars>>

(* a completed call: the result, and whether it repeats the recorded call *)
GetTableDataCall(input) ==
    /\ call' = <<[input |-> input,
                  result |-> IF ParseGetTableData(input) THEN getTableData(db, input)
                             ELSE BadRequest,
                  again |-> (call # <<>> /\ call[1].input = input)]>>
    /\ op' = "getTableData"
    /\ db' = db
    /\ UNCHANGED <<pending, gridVars>>

CreateRowCall ==
    /\ Len(db.rows) < MaxRows
    /\ db' = createRow(db, TableId)
    /\ op' = "createRow"
    /\ call' = <<>>
    /\ UNCHANGED <<pending, gridVars>>

CreateColumnCall(type) ==
    /\ Len(db.columns) < MaxCols
    /\ db' = createColumn(db, TableId, type)
    /\ op' = "createColumn"
    /\ call' = <<>>
    /\ UNCHANGED <<pending, gridVars>>

(* a call that does not parse is recorded with its failure *)
CreateBulkRowsCall(count, gen) ==
    /\ ParseCreateBulkRows(count) => Len(db.rows) + count <= MaxRows
    /\ IF ParseCreateBulkRows(count)
       THEN /\ db' = createBulkRows(db, TableId, count, gen).db
            /\ call' = <<>>
       ELSE /\ db' = db
            /\ call' = <<[input |-> [tableId |-> TableId, count |-> count],
                          result |-> BadRequest, again |-> FALSE]>>
    /\ op' = "createBulkRows"
    /\ UNCHANGED <<pending, gridVars>>

ServerInit ==
    /\ db = EmptyDb
    /\ op = "create"
    /\ call = <<>>
    /\ pending = <<>>
    /\ editingCell = <<>>
    /\ searchTerm = <<>>
    /\ debouncedSearchTerm = <<>>
    /\ filterColumn = 0
    /\ sorting = NoSort
    /\ cache = <<>>
    /\ mutations = <<>>
    /\ commits = 0
    /\ rejected = {}

ServerNext ==
    \/ \E input \in Inputs(db) : GetTableDataCall(input)
    \/ CreateRowCall
    \/ \E type \in ColumnTypes : CreateColumnCall(type)
    \/ \E count \in 1..MaxCount : \E gen \in Generators(count) : CreateBulkRowsCall(count, gen)

SpecServer == ServerInit /\ [][ServerNext]_vars

(* createColumn, first await: column.count *)
CreateColumnCount(type) ==
    /\ Len(pending) < MaxCalls
    /\ Len(db.columns) + Len(pending) < Len(DefaultColumns) + MaxCalls
    /\ pending' = Append(pending, [type |-> type, pc |-> "create", column |-> 0,
                                   columnCount |-> Len(ColumnsOf(db, TableId))])
    /\ op' = "column.count"
    /\ UNCHANGED <<db, call, gridVars>>

(* createColumn, second await: column.create with order: columnCount *)
CreateColumnCreate(n) ==
    /\ n \in 1..Len(pending)
    /\ pending[n].pc = "create"
    /\ db' = [db EXCEPT !.columns = Append(@, [id |-> db.nextId, type |-> pending[n].type,
                                               order |-> pending[n].columnCount,
                                               tableId |-> TableId]),
                        !.nextId = @ + 1]
    /\ pending' = [pending EXCEPT ![n].pc = "cells", ![n].column = db.nextId]
    /\ op' = "column.create"
    /\ call' = <<>>
    /\ UNCHANGED gridVars

(* createColumn, last awaits: row.findMany, cell.createMany, return *)
CreateColumnCells(n) ==
    /\ n \in 1..Len(pending)
    /\ pending[n].pc = "cells"
    /\ LET rows == RowsOf(db, TableId)
       IN db' = IF Len(rows) > 0
                THEN CellCreateMany(db, Map(rows, LAMBDA r :
                         [value |-> <<>>, rowId |-> r.id, columnId |-> pending[n].column]))
                ELSE db
    /\ pending' = SubSeq(pending, 1, n - 1) \o SubSeq(pending, n + 1, Len(pending))
    /\ op' = "createColumn"
    /\ call' = <<>>
    /\ UNCHANGED gridVars

(* createRow, first await: row.create *)
CreateRowCreate ==
    /\ Len(pending) < MaxCalls
    /\ Len(db.rows) < MaxRows
    /\ db' = RowCreateMany(db, TableId, 1)
    /\ pending' = Append(pending, [pc |-> "row.columns", row |-> db.nextId, columns |-> <<>>])
    /\ op' = "row.create"
    /\ call' = <<>>
    /\ UNCHANGED gridVars

(* createRow, second await: column.findMany *)
CreateRowColumns(n) ==
    /\ n \in 1..Len(pending)
    /\ pending[n].pc = "row.columns"
    /\ pending' = [pending EXCEPT ![n].pc = "row.cells",
                                  ![n].columns = ColumnsOf(db, TableId)]
    /\ op' = "column.findMany"
    /\ UNCHANGED <<db, call, gridVars>>

(* createRow, last await: cell.createMany, return *)
CreateRowCells(n) ==
    /\ n \in 1..Len(pending)
    /\ pending[n].pc = "row.cells"
    /\ db' = IF Len(pending[n].columns) > 0
             THEN CellCreateMany(db, Map(pending[n].columns, LAMBDA c :
                      [value |-> <<>>, rowId |-> pending[n].row, columnId |-> c.id]))
             ELSE db
    /\ pending' = SubSeq(pending, 1, n - 1) \o SubSeq(pending, n + 1, Len(pending))
    /\ op' = "createRow"
    /\ call' = <<>>
    /\ UNCHANGED gridVars

(* createColumn and createRow calls that may overlap *)
ColumnsNext ==
    \/ \E type \in ColumnTypes : CreateColumnCount(type)
    \/ \E n \in 1..MaxCalls : CreateColumnCreate(n)
    \/ \E n \in 1..MaxCalls : CreateColumnCells(n)
    \/ CreateRowCreate
    \/ \E n \in 1..MaxCalls : CreateRowColumns(n)
    \/ \E n \in 1..MaxCalls : CreateRowCells(n)
    \/ \E input \in PlainInputs : GetTableDataCall(input)

SpecColumns == ServerInit /\ [][ColumnsNext]_vars

(* requests at and beyond the limits of the input schemas *)
RequestLimits == {LimitMin - 1, LimitMin, LimitMax, LimitMax + 1}

RequestCounts == {CountMin - 2, CountMin - 1, CountMin, CountMin + 1, CountMin + 2, CountMax + 1}

(* the ids of the tables that exist, and an id that no table has *)
Tables == {TableId}

MissingTableId == 2

RequestInputs ==
    [tableId : {TableId, MissingTableId}, cursor : {NULL, 1}, limit : RequestLimits,
     filters : {NoFilter}, sorting : {NoSort}]

ValidateNext ==
    \/ \E input \in RequestInputs : GetTableDataCall(input)
    \/ CreateRowCall
    \/ \E type \in ColumnTypes : CreateColumnCall(type)
    \/ \E count \in RequestCounts :
          \E gen \in IF ParseCreateBulkRows(count) THEN Generators(count) ELSE {<<>>} :
             CreateBulkRowsCall(count, gen)

SpecValidate == ServerInit /\ [][ValidateNext]_vars

----------------------------------------------------------------------------
(* VirtualizedDataTable: query keys and the infinite query cache           *)

(* useInfiniteQuery({ tableId, limit: 50, ... }): the page size, scaled down *)
GridLimit == 1

MaxCommits == 2

(* useInfiniteQuery(..., { retry: 1 }) *)
QueryRetry == 1

(* getQueryClient: defaultOptions.mutations.retry *)
MutationRetry == 1

SearchTexts == {<<>>, <<"a">>}

DraftValues == {<<"a">>, <<"B">>}

GridFilters ==
    {NoFilter} \cup {<<[columnId |-> c, query |-> q]>> :
                        c \in FilterColumns, q \in SearchTexts \ {<<>>}}

(* the headers a user can click: both default columns *)
GridSortColumns == {1, 2}

GridSortings ==
    {NoSort} \cup {<<[columnId |-> c, direction |-> dir]>> :
                      c \in GridSortColumns, dir \in {"asc", "desc"}}

GridKeys == [filters : GridFilters, sorting : GridSortings]

(* the input of useInfiniteQuery, getInfiniteData and setInfiniteData:     *)
(* filters is set only when filterColumn && debouncedSearchTerm            *)
KeyOf(fc, debounced, srt) ==
    [filters |-> IF fc # 0 /\ debounced # <<>>
                 THEN <<[columnId |-> fc, query |-> debounced]>>
                 ELSE NoFilter,
     sorting |-> srt]

ActiveKey == KeyOf(filterColumn, debouncedSearchTerm, sorting)

KeyInput(k, cursor) ==
    [tableId |-> TableId, cursor |-> cursor, limit |-> GridLimit,
     filters |-> k.filters, sorting |-> k.sorting]

NoData == <<>>

IdleEntry == [data |-> NoData, fetch |-> <<>>]

(* a cached page: the result of getTableData and the key it was fetched for *)
PageOf(res, k) ==
    [rows |-> res.rows, columns |-> res.columns, nextCursor |-> res.nextCursor,
     totalCount |-> res.totalCount, key |-> k]

Pages(data) == IF data = NoData THEN <<>> ELSE data[1].pages

PageParams(data) == IF data = NoData THEN <<>> ELSE data[1].pageParams

RECURSIVE FlatRows(_)
FlatRows(pages) ==
    IF pages = <<>> THEN <<>> ELSE Head(pages).rows \o FlatRows(Tail(pages))

(* flatData = infiniteData ? infiniteData.pages.flatMap((page) => page.rows) : [] *)
FlatData(data) == FlatRows(Pages(data))

(* columns = infiniteData?.pages[0]?.columns || [] *)
GridColumns(data) == IF Pages(data) = <<>> THEN <<>> ELSE Pages(data)[1].columns

(* getNextPageParam: (lastPage) => lastPage.nextCursor *)
NextPageParam(data) ==
    IF Pages(data) = <<>> THEN NULL ELSE Pages(data)[Len(Pages(data))].nextCursor

HasNextPage(data) == NextPageParam(data) # NULL

(* a fetch starts from the state of the entry at that moment: the pages it *)
(* will extend (old), also the state a cancel reverts to                   *)
StartFetch(e, kind) ==
    [e EXCEPT !.fetch = <<[kind |-> kind, old |-> e.data, failureCount |-> 0]>>]

(* utils.table.getTableData.cancel(): the entry goes back to its state at  *)
(* the start of the fetch                                                  *)
CancelFetch(e) ==
    IF e.fetch = <<>> THEN e ELSE [data |-> e.fetch[1].old, fetch |-> <<>>]

(* refetch(): joins the fetch of an entry without data, otherwise cancels  *)
(* the fetch in flight and fetches every cached page again                 *)
Refetch(e) ==
    IF e.data = NoData
    THEN IF e.fetch # <<>> THEN e ELSE StartFetch(e, "all")
    ELSE StartFetch(CancelFetch(e), "all")

(* fetching all pages: the first with the initial cursor, each next one    *)
(* with getNextPageParam of the pages fetched so far, up to the number of  *)
(* pages cached before (at least one)                                      *)
RECURSIVE FetchAllPages(_, _, _, _, _)
FetchAllPages(d, k, pages, params, remaining) ==
    LET param == IF pages = <<>> THEN NULL ELSE pages[Len(pages)].nextCursor
        res == getTableData(d, KeyInput(k, param))
    IN IF pages # <<>> /\ (param = NULL \/ remaining <= 0)
       THEN [ok |-> TRUE, data |-> <<[pages |-> pages, pageParams |-> params]>>]
       ELSE IF ~res.ok THEN [ok |-> FALSE, data |-> NoData]
       ELSE FetchAllPages(d, k, Append(pages, PageOf(res, k)), Append(params, param),
                          remaining - 1)

(* fetchNextPage: one page with getNextPageParam of the pages the fetch    *)
(* started from, appended to those pages                                   *)
FetchNextPage(d, k, old) ==
    LET param == NextPageParam(old)
        res == getTableData(d, KeyInput(k, param))
    IN IF ~res.ok THEN [ok |-> FALSE, data |-> NoData]
       ELSE [ok |-> TRUE,
             data |-> <<[pages |-> Append(Pages(old), PageOf(res, k)),
                         pageParams |-> Append(PageParams(old), param)]>>]

FetchResult(d, k, f) ==
    IF f.kind = "next" THEN FetchNextPage(d, k, f.old)
    ELSE FetchAllPages(d, k, <<>>, <<>>, Max(1, Len(Pages(f.old))))

(* the entry after its fetch has answered: the data replaces the entry's,  *)
(* a failure is retried QueryRetry times and then leaves the data as it is *)
SettleFetch(d, k, e) ==
    LET f == e.fetch[1]
        result == FetchResult(d, k, f)
    IN IF result.ok THEN [data |-> result.data, fetch |-> <<>>]
       ELSE IF f.failureCount < QueryRetry
            THEN [e EXCEPT !.fetch = <<[f EXCEPT !.failureCount = @ + 1]>>]
            ELSE [e EXCEPT !.fetch = <<>>]

----------------------------------------------------------------------------
(* VirtualizedDataTable: what the component renders                        *)

Active == cache[ActiveKey]

flatData == FlatData(Active.data)

columns == GridColumns(Active.data)

isFetching == Active.fetch # <<>>

isLoading == isFetching /\ Active.data = NoData

hasNextPage == HasNextPage(Active.data)

(* variant: the loader slot is always appended *)
VirtualCountAlwaysLoader == Len(flatData) + 1

(* count: hasNextPage ? flatData.length + 1 : flatData.length *)
VirtualCount == IF hasNextPage THEN Len(flatData) + 1 ELSE Len(flatData)

(* what the render loop makes of the virtual item with this index (counted *)
(* from 0): the loader slot, a data row, or nothing                        *)
RenderItem(index) ==
    IF index >= Len(flatData) THEN [kind |-> "loader", rowId |-> 0]
    ELSE IF index + 1 \notin DOMAIN flatData THEN [kind |-> "null", rowId |-> 0]
    ELSE [kind |-> "row", rowId |-> flatData[index + 1].id]

(* neither the spinner (isLoading) nor "No columns defined for this table" *)
GridRendered == ~isLoading /\ Len(columns) > 0

(* row.cells.find((c) => c.columnId === column.id) *)
FindCell(row, columnId) ==
    LET hits == SelectSeq(row.cells, LAMBDA c : c.columnId = columnId)
    IN IF hits = <<>> THEN <<>> ELSE <<hits[1]>>

(* the <input> is rendered in row i, column j (both counted from 1) *)
InputAt(i, j) ==
    /\ GridRendered
    /\ editingCell # <<>>
    /\ i \in 1..Len(flatData)
    /\ j \in 1..Len(columns)
    /\ flatData[i].id = editingCell[1].rowId
    /\ columns[j].id = editingCell[1].columnId

InputRendered == \E i \in 1..Len(flatData) : \E j \in 1..Len(columns) : InputAt(i, j)

(* no updateCell.mutate call is still waiting for its onMutate to run: the *)
(* continuation of an event handler runs before the next event is handled  *)
Quiet == \A n \in 1..Len(mutations) : mutations[n].phase # "onMutate"

----------------------------------------------------------------------------
(* VirtualizedDataTable: the updateCell mutation                           *)

(* updateCell.mutate({ id, value }) *)
Mutate(muts, id, value, n) ==
    Append(muts, [id |-> id, value |-> value, phase |-> "onMutate",
                  previousData |-> NoData, key |-> ActiveKey, failureCount |-> 0,
                  n |-> n, before |-> flatData])

(* variant: every cell of the row that holds the cell takes the value *)
OptimisticDataWholeRow(old, newCell) ==
    IF old = NoData THEN <<[pages |-> <<>>, pageParams |-> <<>>]>>
    ELSE <<[old[1] EXCEPT !.pages = Map(@, LAMBDA page :
              [page EXCEPT !.rows = Map(@, LAMBDA row :
                  [row EXCEPT !.cells = Map(@, LAMBDA cell :
                      IF \E i \in 1..Len(row.cells) : row.cells[i].id = newCell.id
                      THEN [cell EXCEPT !.value = newCell.value]
                      ELSE cell)])])]>>

(* the updater of setInfiniteData in onMutate *)
OptimisticData(old, newCell) ==
    IF old = NoData THEN <<[pages |-> <<>>, pageParams |-> <<>>]>>
    ELSE <<[old[1] EXCEPT !.pages = Map(@, LAMBDA page :
              [page EXCEPT !.rows = Map(@, LAMBDA row :
                  [row EXCEPT !.cells = Map(@, LAMBDA cell :
                      IF cell.id = newCell.id
                      THEN [cell EXCEPT !.value = newCell.value]
                      ELSE cell)])])]>>

(* variant: onError restores nothing *)
RollbackSkipped(c, m) == c

(* onError: if (context?.previousData) setInfiniteData(key, context.previousData) *)
Rollback(c, m) ==
    IF m.previousData # NoData
    THEN [c EXCEPT ![m.key].data = m.previousData]
    ELSE c

RemoveAt(s, n) == SubSeq(s, 1, n - 1) \o SubSeq(s, n + 1, Len(s))

(* onMutate: cancel the fetches in flight, read previousData, write the    *)
(* optimistic value; then the request is sent                              *)
OnMutate(n) ==
    /\ n \in 1..Len(mutations)
    /\ mutations[n].phase = "onMutate"
    /\ LET m == mutations[n]
           cancelled == [k \in GridKeys |-> CancelFetch(cache[k])]
           previousData == cancelled[m.key].data
       IN /\ cache' = [cancelled EXCEPT ![m.key].data = OptimisticData(previousData, m)]
          /\ mutations' = [mutations EXCEPT ![n].phase = "sent",
                                            ![n].previousData = previousData]
    /\ op' = "onMutate"
    /\ UNCHANGED <<db, call, pending, editingCell, searchTerm, debouncedSearchTerm, filterColumn,
                   sorting, commits, rejected>>

(* the server runs updateCell and the response arrives *)
UpdateCellSuccess(n) ==
    /\ Quiet
    /\ n \in 1..Len(mutations)
    /\ mutations[n].phase = "sent"
    /\ db' = CellUpdate(db, mutations[n].id, mutations[n].value)
    /\ mutations' = RemoveAt(mutations, n)
    /\ op' = "onSuccess"
    /\ UNCHANGED <<call, pending, editingCell, searchTerm, debouncedSearchTerm, filterColumn,
                   sorting, cache, commits, rejected>>

(* the request fails: retried MutationRetry times *)
UpdateCellRetry(n) ==
    /\ Quiet
    /\ n \in 1..Len(mutations)
    /\ mutations[n].phase = "sent"
    /\ mutations[n].failureCount < MutationRetry
    /\ mutations' = [mutations EXCEPT ![n].failureCount = @ + 1]
    /\ op' = "retry"
    /\ UNCHANGED <<db, call, pending, editingCell, searchTerm, debouncedSearchTerm, filterColumn,
                   sorting, cache, commits, rejected>>

(* the request fails for the last time: onError *)
UpdateCellError(n) ==
    /\ Quiet
    /\ n \in 1..Len(mutations)
    /\ mutations[n].phase = "sent"
    /\ mutations[n].failureCount >= MutationRetry
    /\ cache' = Rollback(cache, mutations[n])
    /\ rejected' = rejected \cup {<<mutations[n].id, mutations[n].value>>}
    /\ mutations' = RemoveAt(mutations, n)
    /\ op' = "onError"
    /\ UNCHANGED <<db, call, pending, editingCell, searchTerm, debouncedSearchTerm, filterColumn,
                   sorting, commits>>

----------------------------------------------------------------------------
(* VirtualizedDataTable: the event handlers                                *)

(* variant: the scroll handler fetches whenever the bottom is near *)
HandleScrollUnguarded ==
    /\ Quiet
    /\ GridRendered
    /\ cache' = [cache EXCEPT ![ActiveKey] = StartFetch(@, "next")]
    /\ op' = "Scroll"
    /\ UNCHANGED <<db, call, pending, editingCell, searchTerm, debouncedSearchTerm, filterColumn,
                   sorting, mutations, commits, rejected>>

(* handleScroll, near the bottom of the scroll element *)
HandleScroll ==
    /\ Quiet
    /\ GridRendered
    /\ hasNextPage /\ ~isFetching
    /\ cache' = [cache EXCEPT ![ActiveKey] = StartFetch(@, "next")]
    /\ op' = "Scroll"
    /\ UNCHANGED <<db, call, pending, editingCell, searchTerm, debouncedSearchTerm, filterColumn,
                   sorting, mutations, commits, rejected>>

(* the answer of getTableData arrives for the fetch of key k *)
FetchSettle(k) ==
    /\ Quiet
    /\ cache[k].fetch # <<>>
    /\ cache' = [cache EXCEPT ![k] = SettleFetch(db, k, @)]
    /\ op' = "FetchSettle"
    /\ UNCHANGED <<db, call, pending, editingCell, searchTerm, debouncedSearchTerm, filterColumn,
                   sorting, mutations, commits, rejected>>

(* variant: the editor opens with an empty draft *)
HandleCellClickEmptyDraft(i, j) ==
    /\ Quiet
    /\ GridRendered /\ ~InputRendered
    /\ i \in 1..Len(flatData) /\ j \in 1..Len(columns)
    /\ LET cell == FindCell(flatData[i], columns[j].id)
       IN /\ cell # <<>>
          /\ editingCell' = <<[rowId |-> flatData[i].id, columnId |-> columns[j].id,
                               cellId |-> cell[1].id, value |-> <<>>]>>
    /\ op' = "Click"
    /\ UNCHANGED <<db, call, pending, searchTerm, debouncedSearchTerm, filterColumn, sorting,
                   cache, mutations, commits, rejected>>

(* onCellClick of a TableCell: if (cell) handleCellClick(...) *)
HandleCellClick(i, j) ==
    /\ Quiet
    /\ GridRendered /\ ~InputRendered
    /\ i \in 1..Len(flatData) /\ j \in 1..Len(columns)
    /\ LET cell == FindCell(flatData[i], columns[j].id)
       IN /\ cell # <<>>
          /\ editingCell' = <<[rowId |-> flatData[i].id, columnId |-> columns[j].id,
                               cellId |-> cell[1].id, value |-> cell[1].value]>>
    /\ op' = "Click"
    /\ UNCHANGED <<db, call, pending, searchTerm, debouncedSearchTerm, filterColumn, sorting,
                   cache, mutations, commits, rejected>>

(* what can be typed into the <input> of a column of the given type: an    *)
(* <input type="number"> takes none of the texts of DraftValues            *)
DraftsFor(type) == IF type = "number" THEN {} ELSE DraftValues

(* onChange of the <input> *)
InputChange(i, j, value) ==
    /\ Quiet
    /\ InputAt(i, j)
    /\ value \in DraftsFor(columns[j].type)
    /\ value # editingCell[1].value
    /\ editingCell' = <<[editingCell[1] EXCEPT !.value = value]>>
    /\ op' = "Change"
    /\ UNCHANGED <<db, call, pending, searchTerm, debouncedSearchTerm, filterColumn, sorting,
                   cache, mutations, commits, rejected>>

(* variant: the handler issues no commit *)
CommitCellSkipped(cell) == UNCHANGED <<mutations, commits>>

(* if (cell) updateCell.mutate({ id: cell.id, value: editingCell.value }) *)
CommitCell(cell) ==
    IF cell # <<>>
    THEN /\ mutations' = Mutate(mutations, cell[1].id, editingCell[1].value, commits + 1)
         /\ commits' = commits + 1
    ELSE UNCHANGED <<mutations, commits>>

(* onBlur of the <input> *)
InputBlur(i, j) ==
    /\ Quiet
    /\ InputAt(i, j)
    /\ commits < MaxCommits
    /\ CommitCell(FindCell(flatData[i], columns[j].id))
    /\ editingCell' = <<>>
    /\ op' = "Blur"
    /\ UNCHANGED <<db, call, pending, searchTerm, debouncedSearchTerm, filterColumn, sorting,
                   cache, rejected>>

(* onKeyDown of the <input>, e.key === "Enter" *)
KeyEnter(i, j) ==
    /\ Quiet
    /\ InputAt(i, j)
    /\ commits < MaxCommits
    /\ CommitCell(FindCell(flatData[i], columns[j].id))
    /\ editingCell' = <<>>
    /\ op' = "Enter"
    /\ UNCHANGED <<db, call, pending, searchTerm, debouncedSearchTerm, filterColumn, sorting,
                   cache, rejected>>

(* variant: Escape commits the draft like Enter *)
KeyEscapeCommitting(i, j) ==
    /\ Quiet
    /\ InputAt(i, j)
    /\ commits < MaxCommits
    /\ mutations' = Mutate(mutations, editingCell[1].cellId, editingCell[1].value,
                           commits + 1)
    /\ commits' = commits + 1
    /\ editingCell' = <<>>
    /\ op' = "Escape"
    /\ UNCHANGED <<db, call, pending, searchTerm, debouncedSearchTerm, filterColumn, sorting,
                   cache, rejected>>

(* onKeyDown of the <input>, e.key === "Escape" *)
KeyEscape(i, j) ==
    /\ Quiet
    /\ InputAt(i, j)
    /\ editingCell' = <<>>
    /\ op' = "Escape"
    /\ UNCHANGED <<db, call, pending, searchTerm, debouncedSearchTerm, filterColumn, sorting,
                   cache, mutations, commits, rejected>>

(* handleKeyNavigation, Tab: the next position before the row is clamped;  *)
(* rows and columns are counted from 1 here, from 0 in the component       *)
(* variant: at the end of a row the column wraps and the row stays *)
TabTargetSameRow(i, j, shift) ==
    LET col == IF shift THEN j - 1 ELSE j + 1
        wrap == IF shift THEN col < 1 ELSE col > Len(columns)
    IN [row |-> i,
        col |-> IF ~wrap THEN col ELSE IF shift THEN Len(columns) ELSE 1]

TabTarget(i, j, shift) ==
    LET col == IF shift THEN j - 1 ELSE j + 1
        wrap == IF shift THEN col < 1 ELSE col > Len(columns)
    IN [row |-> IF ~wrap THEN i ELSE IF shift THEN i - 1 ELSE i + 1,
        col |-> IF ~wrap THEN col ELSE IF shift THEN Len(columns) ELSE 1]

ClampRow(row) == IF row < 1 THEN 1 ELSE IF row > Len(flatData) THEN Len(flatData) ELSE row

(* onKeyDown of the <input>, e.key === "Tab": handleKeyNavigation *)
KeyTab(i, j, shift) ==
    /\ Quiet
    /\ InputAt(i, j)
    /\ commits < MaxCommits
    /\ CommitCell(FindCell(flatData[i], editingCell[1].columnId))
    /\ LET target == TabTarget(i, j, shift)
           nextRow == ClampRow(target.row)
           nextCell == FindCell(flatData[nextRow], columns[target.col].id)
       IN /\ cache' = IF target.row > Len(flatData) /\ hasNextPage /\ ~isFetching
                      THEN [cache EXCEPT ![ActiveKey] = StartFetch(@, "next")]
                      ELSE cache
          /\ editingCell' = IF nextCell = <<>> THEN editingCell
                            ELSE <<[rowId |-> flatData[nextRow].id,
                                    columnId |-> columns[target.col].id,
                                    cellId |-> nextCell[1].id,
                                    value |-> nextCell[1].value]>>
    /\ op' = "Tab"
    /\ UNCHANGED <<db, call, pending, searchTerm, debouncedSearchTerm, filterColumn, sorting,
                   rejected>>

ArrowKeys == {"ArrowUp", "ArrowDown", "ArrowLeft", "ArrowRight"}

(* handleKeyNavigation, arrow keys: one row or column further, kept inside *)
(* the loaded rows and the columns (counted from 1)                        *)
ArrowTarget(i, j, key) ==
    [row |-> CASE key = "ArrowUp" -> Max(1, i - 1)
               [] key = "ArrowDown" -> Min(Len(flatData), i + 1)
               [] OTHER -> i,
     col |-> CASE key = "ArrowLeft" -> Max(1, j - 1)
               [] key = "ArrowRight" -> Min(Len(columns), j + 1)
               [] OTHER -> j]

(* onKeyDown of the <input>, an arrow key: handleKeyNavigation *)
KeyArrow(i, j, key) ==
    /\ Quiet
    /\ InputAt(i, j)
    /\ key \in ArrowKeys
    /\ LET target == ArrowTarget(i, j, key)
           nextCell == FindCell(flatData[target.row], columns[target.col].id)
       IN /\ nextCell # <<>>
          /\ editingCell' = <<[rowId |-> flatData[target.row].id,
                               columnId |-> columns[target.col].id,
                               cellId |-> nextCell[1].id,
                               value |-> nextCell[1].value]>>
    /\ op' = "Arrow"
    /\ UNCHANGED <<db, call, pending, searchTerm, debouncedSearchTerm, filterColumn, sorting,
                   cache, mutations, commits, rejected>>

(* a render with another query key: the mutation observer hands the new    *)
(* callbacks to its current mutation, the last one started, while pending  *)
RetargetCurrent(muts, newKey) ==
    [n \in 1..Len(muts) |->
        IF muts[n].n = commits THEN [muts[n] EXCEPT !.key = newKey] ELSE muts[n]]

(* variant: no refetch when the view changes *)
RefetchEffectSkipped(c, newKey) == c

(* useEffect(() => { refetch(); }, [sorting, debouncedSearchTerm, filterColumn, refetch]) *)
RefetchEffect(c, newKey) == [c EXCEPT ![newKey] = Refetch(@)]

(* a change of sorting, debouncedSearchTerm or filterColumn: the next      *)
(* render uses the key newKey (which may be the key as before) and the     *)
(* refetch effect runs                                                     *)
KeyChange(newKey) ==
    /\ cache' = RefetchEffect(cache, newKey)
    /\ mutations' = RetargetCurrent(mutations, newKey)

(* variant: a sorted column toggles between ascending and descending *)
NextSortingTwoCycle(columnId) ==
    IF sorting # NoSort /\ sorting[1].columnId = columnId
    THEN IF sorting[1].direction = "asc"
         THEN <<[columnId |-> columnId, direction |-> "desc"]>>
         ELSE <<[columnId |-> columnId, direction |-> "asc"]>>
    ELSE <<[columnId |-> columnId, direction |-> "asc"]>>

(* handleSortColumn *)
NextSorting(columnId) ==
    IF sorting # NoSort /\ sorting[1].columnId = columnId
    THEN IF sorting[1].direction = "asc"
         THEN <<[columnId |-> columnId, direction |-> "desc"]>>
         ELSE NoSort
    ELSE <<[columnId |-> columnId, direction |-> "asc"]>>

(* onClick of a column header *)
HandleSortColumn(j) ==
    /\ Quiet
    /\ GridRendered /\ ~InputRendered
    /\ j \in 1..Len(columns)
    /\ columns[j].id \in GridSortColumns
    /\ sorting' = NextSorting(columns[j].id)
    /\ KeyChange(KeyOf(filterColumn, debouncedSearchTerm, sorting'))
    /\ op' = "Sort"
    /\ UNCHANGED <<db, call, pending, editingCell, searchTerm, debouncedSearchTerm, filterColumn,
                   commits, rejected>>

(* onChange of the search box *)
SearchChange(text) ==
    /\ Quiet
    /\ GridRendered /\ ~InputRendered
    /\ text \in SearchTexts
    /\ text # searchTerm
    /\ searchTerm' = text
    /\ op' = "Search"
    /\ UNCHANGED <<db, call, pending, editingCell, debouncedSearchTerm, filterColumn, sorting,
                   cache, mutations, commits, rejected>>

(* useDebounce(searchTerm, 300): the timer fires *)
DebounceFire ==
    /\ Quiet
    /\ debouncedSearchTerm # searchTerm
    /\ debouncedSearchTerm' = searchTerm
    /\ KeyChange(KeyOf(filterColumn, searchTerm, sorting))
    /\ op' = "Debounce"
    /\ UNCHANGED <<db, call, pending, editingCell, searchTerm, filterColumn, sorting, commits,
                   rejected>>

(* onChange of the column <select>: setFilterColumn(e.target.value || null), *)
(* 0 for null                                                              *)
FilterColumnChange(columnId) ==
    /\ Quiet
    /\ GridRendered /\ ~InputRendered
    /\ columnId \in {0} \cup (FilterColumns \cap {columns[j].id : j \in 1..Len(columns)})
    /\ columnId # filterColumn
    /\ filterColumn' = columnId
    /\ KeyChange(KeyOf(columnId, debouncedSearchTerm, sorting))
    /\ op' = "FilterColumn"
    /\ UNCHANGED <<db, call, pending, editingCell, searchTerm, debouncedSearchTerm, sorting,
                   commits, rejected>>

----------------------------------------------------------------------------
(* The grid mounted on a table: editing, and changing the view             *)

(* the values generateCellValue drew for the two generated rows *)
GridGenerator ==
    [n \in 1..2 |-> [ty \in ColumnTypes |->
        IF ty = "number" THEN <<"1">> ELSE IF n = 1 THEN <<"a">> ELSE <<"A", "b">>]]

(* a table of two generated rows *)
EditDb == createBulkRows(EmptyDb, TableId, 2, GridGenerator).db

(* a table of one added row and two generated rows *)
ViewDb == createBulkRows(createRow(EmptyDb, TableId), TableId, 2, GridGenerator).db

(* the component mounts: the first page of the unfiltered, unsorted query  *)
(* is being fetched                                                        *)
GridInit(d) ==
    /\ db = d
    /\ op = "mount"
    /\ call = <<>>
    /\ pending = <<>>
    /\ editingCell = <<>>
    /\ searchTerm = <<>>
    /\ debouncedSearchTerm = <<>>
    /\ filterColumn = 0
    /\ sorting = NoSort
    /\ cache = [k \in GridKeys |->
                   IF k = KeyOf(0, <<>>, NoSort) THEN StartFetch(IdleEntry, "all")
                   ELSE IdleEntry]
    /\ mutations = <<>>
    /\ commits = 0
    /\ rejected = {}

Positions == (1..MaxRows) \X (1..MaxCols)

(* editing cells with every key the <input> handles, under one view *)
EditNext ==
    \/ HandleScroll
    \/ \E k \in GridKeys : FetchSettle(k)
    \/ \E p \in Positions : HandleCellClick(p[1], p[2])
    \/ \E p \in Positions, v \in DraftValues : InputChange(p[1], p[2], v)
    \/ \E p \in Positions : InputBlur(p[1], p[2])
    \/ \E p \in Positions : KeyEnter(p[1], p[2])
    \/ \E p \in Positions : KeyEscape(p[1], p[2])
    \/ \E p \in Positions, shift \in BOOLEAN : KeyTab(p[1], p[2], shift)
    \/ \E p \in Positions, key \in ArrowKeys : KeyArrow(p[1], p[2], key)
    \/ \E n \in 1..MaxCommits : OnMutate(n)
    \/ \E n \in 1..MaxCommits : UpdateCellSuccess(n)
    \/ \E n \in 1..MaxCommits : UpdateCellRetry(n)
    \/ \E n \in 1..MaxCommits : UpdateCellError(n)

SpecEdit == GridInit(EditDb) /\ [][EditNext]_vars

(* one edit of a Title cell, to a text that is also searched for,          *)
(* committed by blur, while the user types a search text, picks the filter *)
(* column and sorts                                                        *)
ViewNext ==
    \/ HandleScroll
    \/ \E k \in GridKeys : FetchSettle(k)
    \/ \E i \in 1..MaxRows : HandleCellClick(i, 1)
    \/ \E p \in Positions, v \in DraftValues \cap SearchTexts : InputChange(p[1], p[2], v)
    \/ \E p \in Positions : commits = 0 /\ InputBlur(p[1], p[2])
    \/ \E n \in 1..MaxCommits : OnMutate(n)
    \/ \E n \in 1..MaxCommits : UpdateCellSuccess(n)
    \/ \E n \in 1..MaxCommits : UpdateCellRetry(n)
    \/ \E n \in 1..MaxCommits : UpdateCellError(n)
    \/ \E j \in 1..MaxCols :
          /\ j \in 1..Len(columns) /\ columns[j].id \in SortColumns
          /\ HandleSortColumn(j)
    \/ \E text \in SearchTexts \ {<<>>} : SearchChange(text)
    \/ DebounceFire
    \/ \E c \in FilterColumns : FilterColumnChange(c)

SpecView == GridInit(ViewDb) /\ [][ViewNext]_vars

(* utils.table.getTableData.invalidate(): the query on screen is fetched   *)
(* again (the others are only marked stale)                                *)
Invalidate(c) == [c EXCEPT ![ActiveKey] = Refetch(@)]

(* the values drawn for the rows of one generateRows call *)
BulkGenerator(count) == [n \in 1..count |-> GridGenerator[1 + (n % 2)]]

(* the database after the first k batches of a createBulkRows call; the    *)
(* batches are not in a transaction                                        *)
BulkPartial(d, count, k) ==
    BulkLoop(d, TableId, ColumnsOf(d, TableId), count, 0, 0, k, BulkGenerator(count)).db

(* createBulkRows, first await: column.findMany *)
BulkStart(count) ==
    /\ Len(pending) < MaxCalls
    /\ ParseCreateBulkRows(count)
    /\ pending' = Append(pending, [pc |-> "bulk.rows", count |-> count, createdCount |-> 0,
                                   i |-> 0, columns |-> ColumnsOf(db, TableId),
                                   newRows |-> <<>>])
    /\ op' = "bulk.columns"
    /\ UNCHANGED <<db, call, gridVars>>

(* one pass of the loop, first await: row.createMany of currentBatchSize rows *)
BulkRowCreateMany(n) ==
    /\ n \in 1..Len(pending)
    /\ pending[n].pc = "bulk.rows"
    /\ LET currentBatchSize == Min(batchSize, pending[n].count - pending[n].createdCount)
       IN /\ Len(db.rows) + currentBatchSize <= MaxRows
          /\ db' = RowCreateMany(db, TableId, currentBatchSize)
    /\ pending' = [pending EXCEPT ![n].pc = "bulk.find"]
    /\ op' = "row.createMany"
    /\ call' = <<>>
    /\ UNCHANGED gridVars

(* second await: row.findMany, orderBy id desc, take currentBatchSize *)
BulkFindNewRows(n) ==
    /\ n \in 1..Len(pending)
    /\ pending[n].pc = "bulk.find"
    /\ pending' = [pending EXCEPT
          ![n].pc = "bulk.cells",
          ![n].newRows = NewestRows(db, TableId,
                             Min(batchSize, pending[n].count - pending[n].createdCount))]
    /\ op' = "row.findMany"
    /\ UNCHANGED <<db, call, gridVars>>

(* the cells of newRows, createdCount += currentBatchSize, and the next    *)
(* pass or the return                                                      *)
BulkCellsCreate(n) ==
    /\ n \in 1..Len(pending)
    /\ pending[n].pc = "bulk.cells"
    /\ db' = BulkCells(db, pending[n].newRows, pending[n].columns,
                       BulkGenerator(MaxRows), 1)
    /\ LET currentBatchSize == Min(batchSize, pending[n].count - pending[n].createdCount)
       IN pending' = IF pending[n].i + 1 >= Ceil(pending[n].count, batchSize)
                     THEN SubSeq(pending, 1, n - 1) \o SubSeq(pending, n + 1, Len(pending))
                     ELSE [pending EXCEPT ![n].pc = "bulk.rows", ![n].i = @ + 1,
                                          ![n].createdCount = @ + currentBatchSize]
    /\ op' = "cell.createMany"
    /\ call' = <<>>
    /\ UNCHANGED gridVars

(* createBulkRows and createRow calls that may overlap *)
BatchesNext ==
    \/ \E count \in 1..MaxCount : BulkStart(count)
    \/ \E n \in 1..MaxCalls : BulkRowCreateMany(n)
    \/ \E n \in 1..MaxCalls : BulkFindNewRows(n)
    \/ \E n \in 1..MaxCalls : BulkCellsCreate(n)
    \/ CreateRowCreate
    \/ \E n \in 1..MaxCalls : CreateRowColumns(n)
    \/ \E n \in 1..MaxCalls : CreateRowCells(n)
    \/ \E input \in PlainInputs : GetTableDataCall(input)

SpecBatches == ServerInit /\ [][BatchesNext]_vars

(* generateRows(count): bulkRowsMutation.mutate *)
GenerateRows(count) ==
    /\ Quiet
    /\ GridRendered
    /\ Len(mutations) < MaxCommits
    /\ mutations' = Append(mutations, [phase |-> "bulk", count |-> count, failureCount |-> 0])
    /\ op' = "Generate"
    /\ UNCHANGED <<db, call, pending, editingCell, searchTerm, debouncedSearchTerm, filterColumn,
                   sorting, cache, commits, rejected>>

(* createBulkRows completes: onSuccess invalidates getTableData *)
CreateBulkRowsSuccess(n) ==
    /\ n \in 1..Len(mutations)
    /\ mutations[n].phase = "bulk"
    /\ Len(db.rows) + mutations[n].count <= MaxRows
    /\ db' = createBulkRows(db, TableId, mutations[n].count,
                            BulkGenerator(mutations[n].count)).db
    /\ cache' = Invalidate(cache)
    /\ mutations' = RemoveAt(mutations, n)
    /\ op' = "bulkSuccess"
    /\ UNCHANGED <<call, pending, editingCell, searchTerm, debouncedSearchTerm, filterColumn,
                   sorting, commits, rejected>>

(* createBulkRows fails after k batches and is sent again *)
CreateBulkRowsRetry(n, k) ==
    /\ n \in 1..Len(mutations)
    /\ mutations[n].phase = "bulk"
    /\ mutations[n].failureCount < MutationRetry
    /\ k \in 0..(Ceil(mutations[n].count, batchSize) - 1)
    /\ Len(db.rows) + k * batchSize <= MaxRows
    /\ db' = BulkPartial(db, mutations[n].count, k)
    /\ mutations' = [mutations EXCEPT ![n].failureCount = @ + 1]
    /\ op' = "bulkRetry"
    /\ UNCHANGED <<call, pending, editingCell, searchTerm, debouncedSearchTerm, filterColumn,
                   sorting, cache, commits, rejected>>

(* createBulkRows fails in its first batch after row.createMany, before    *)
(* the cells of the new rows are written, and is sent again                *)
CreateBulkRowsRetryRows(n) ==
    /\ n \in 1..Len(mutations)
    /\ mutations[n].phase = "bulk"
    /\ mutations[n].failureCount < MutationRetry
    /\ Len(db.rows) + Min(batchSize, mutations[n].count) <= MaxRows
    /\ db' = RowCreateMany(db, TableId, Min(batchSize, mutations[n].count))
    /\ mutations' = [mutations EXCEPT ![n].failureCount = @ + 1]
    /\ op' = "bulkRetry"
    /\ UNCHANGED <<call, pending, editingCell, searchTerm, debouncedSearchTerm, filterColumn,
                   sorting, cache, commits, rejected>>

(* createBulkRows fails after k batches for the last time: the onError of  *)
(* generateRows shows a toast                                              *)
CreateBulkRowsError(n, k) ==
    /\ n \in 1..Len(mutations)
    /\ mutations[n].phase = "bulk"
    /\ mutations[n].failureCount >= MutationRetry
    /\ k \in 0..(Ceil(mutations[n].count, batchSize) - 1)
    /\ Len(db.rows) + k * batchSize <= MaxRows
    /\ db' = BulkPartial(db, mutations[n].count, k)
    /\ mutations' = RemoveAt(mutations, n)
    /\ op' = "bulkError"
    /\ UNCHANGED <<call, pending, editingCell, searchTerm, debouncedSearchTerm, filterColumn,
                   sorting, cache, commits, rejected>>

(* generating rows on an empty table *)
BulkNext ==
    \/ HandleScroll
    \/ \E k \in GridKeys : FetchSettle(k)
    \/ \E count \in 1..MaxCount : GenerateRows(count)
    \/ \E n \in 1..MaxCommits : CreateBulkRowsSuccess(n)
    \/ \E n \in 1..MaxCommits, k \in 0..MaxCount : CreateBulkRowsRetry(n, k)
    \/ \E n \in 1..MaxCommits, k \in 0..MaxCount : CreateBulkRowsError(n, k)

SpecBulk == GridInit(EmptyDb) /\ [][BulkNext]_vars

(* a generate button pressed on the empty table with no other mutation in  *)
(* flight, and the generated cells edited                                  *)
GenerateNext ==
    \/ HandleScroll
    \/ \E k \in GridKeys : FetchSettle(k)
    \/ \E p \in Positions : HandleCellClick(p[1], p[2])
    \/ \E p \in Positions, v \in DraftValues : InputChange(p[1], p[2], v)
    \/ \E p \in Positions : commits = 0 /\ InputBlur(p[1], p[2])
    \/ \E n \in 1..MaxCommits : OnMutate(n)
    \/ \E n \in 1..MaxCommits : UpdateCellSuccess(n)
    \/ \E n \in 1..MaxCommits : UpdateCellRetry(n)
    \/ \E n \in 1..MaxCommits : UpdateCellError(n)
    \/ \E count \in 1..MaxCount : mutations = <<>> /\ db.rows = <<>> /\ GenerateRows(count)
    \/ \E n \in 1..MaxCommits : CreateBulkRowsSuccess(n)
    \/ \E n \in 1..MaxCommits, k \in 0..MaxCount : CreateBulkRowsRetry(n, k)
    \/ \E n \in 1..MaxCommits : CreateBulkRowsRetryRows(n)
    \/ \E n \in 1..MaxCommits, k \in 0..MaxCount : CreateBulkRowsError(n, k)

SpecGenerate == GridInit(EmptyDb) /\ [][GenerateNext]_vars

(* handleAddRow: createRow.mutate({ tableId }) *)
HandleAddRow ==
    /\ Quiet
    /\ GridRendered
    /\ Len(mutations) < MaxCommits
    /\ Len(db.rows) + Len(SelectSeq(mutations, LAMBDA m : m.phase = "createRow")) < MaxRows
    /\ mutations' = Append(mutations, [phase |-> "createRow", failureCount |-> 0])
    /\ op' = "AddRow"
    /\ UNCHANGED <<db, call, pending, editingCell, searchTerm, debouncedSearchTerm, filterColumn,
                   sorting, cache, commits, rejected>>

(* createRow completes: onSuccess invalidates getTableData *)
CreateRowSuccess(n) ==
    /\ Quiet
    /\ n \in 1..Len(mutations)
    /\ mutations[n].phase = "createRow"
    /\ db' = createRow(db, TableId)
    /\ cache' = Invalidate(cache)
    /\ mutations' = RemoveAt(mutations, n)
    /\ op' = "createRowSuccess"
    /\ UNCHANGED <<call, pending, editingCell, searchTerm, debouncedSearchTerm, filterColumn,
                   sorting, commits, rejected>>

(* one cell committed by blur while rows are added *)
RefreshNext ==
    \/ HandleScroll
    \/ \E k \in GridKeys : FetchSettle(k)
    \/ \E p \in Positions : HandleCellClick(p[1], p[2])
    \/ \E p \in Positions, v \in DraftValues : InputChange(p[1], p[2], v)
    \/ \E p \in Positions : commits = 0 /\ InputBlur(p[1], p[2])
    \/ \E n \in 1..MaxCommits : OnMutate(n)
    \/ \E n \in 1..MaxCommits : UpdateCellSuccess(n)
    \/ \E n \in 1..MaxCommits : UpdateCellRetry(n)
    \/ \E n \in 1..MaxCommits : UpdateCellError(n)
    \/ HandleAddRow
    \/ \E n \in 1..MaxCommits : CreateRowSuccess(n)

SpecRefresh == GridInit(EditDb) /\ [][RefreshNext]_vars

(* clicking the column headers while cells are committed by blur *)
SortNext ==
    \/ \E k \in GridKeys : FetchSettle(k)
    \/ \E i \in 1..MaxRows : HandleCellClick(i, 1)
    \/ \E p \in Positions : InputBlur(p[1], p[2])
    \/ \E n \in 1..MaxCommits : OnMutate(n)
    \/ \E n \in 1..MaxCommits : UpdateCellSuccess(n)
    \/ \E n \in 1..MaxCommits : UpdateCellRetry(n)
    \/ \E n \in 1..MaxCommits : UpdateCellError(n)
    \/ \E j \in 1..MaxCols : HandleSortColumn(j)

SpecSort == GridInit(EditDb) /\ [][SortNext]_vars

----------------------------------------------------------------------------
(* Claims on the router                                                    *)

PlainInput(input) == input.sorting = NoSort /\ ~FilterActive(input)

(* C5: without sort or filter getTableData returns exactly the rows at     *)
(* positions [c, min(c+L, N)) of the id-ordered row list of the table,     *)
(* with nextCursor = c+L when N > c+L and null otherwise.                  *)
C5_CursorWindowing ==
    (call # <<>> /\ PlainInput(call[1].input)) =>
        LET input == call[1].input
            res == call[1].result
            all == RowsOf(db, input.tableId)
            N == Len(all)
            c == IF input.cursor = NULL THEN 0 ELSE input.cursor
            L == input.limit
        IN /\ res.ok
           /\ Len(res.rows) = Max(0, Min(c + L, N) - c)
           /\ \A i \in 1..Len(res.rows) :
                 /\ res.rows[i].id = all[c + i].id
                 /\ res.rows[i].cells = CellsOfRow(db, all[c + i].id)
           /\ res.nextCursor = (IF N > c + L THEN c + L ELSE NULL)

(* three rows, limit 2: cursor null gives 2 rows and cursor 2, cursor 2    *)
(* gives the last row and null (the 120 rows / page size 50 scenario)      *)
C5_Witness ==
    /\ call # <<>>
    /\ PlainInput(call[1].input)
    /\ Len(db.rows) = 3
    /\ call[1].input.limit = 2
    /\ call[1].input.cursor = 2
    /\ Len(call[1].result.rows) = 1
    /\ call[1].result.nextCursor = NULL

CellsAt(d, rowId, columnId) ==
    {i \in 1..Len(d.cells) : d.cells[i].rowId = rowId /\ d.cells[i].columnId = columnId}

Complete(d) ==
    \A i \in 1..Len(d.rows) : \A j \in 1..Len(d.columns) :
        d.rows[i].tableId = d.columns[j].tableId
            => Cardinality(CellsAt(d, d.rows[i].id, d.columns[j].id)) = 1

FirstPage ==
    getTableData(db, [tableId |-> TableId, cursor |-> NULL, limit |-> MaxLimit,
                      filters |-> NoFilter, sorting |-> NoSort])

(* C7: after any sequence of completed createRow, createColumn and         *)
(* createBulkRows calls every row has exactly one cell for every column of *)
(* its table; the cells createRow and createColumn make are empty; a table *)
(* with 3 columns and one added row reads back as 1 row with 3 empty cells *)
(* and totalCount 1.                                                       *)
C7_RowCellCompleteness ==
    /\ Complete(db)
    /\ op = "createRow" =>
          \A i \in 1..Len(db.cells) :
              db.cells[i].rowId = db.rows[Len(db.rows)].id => db.cells[i].value = <<>>
    /\ op = "createColumn" =>
          \A i \in 1..Len(db.cells) :
              db.cells[i].columnId = db.columns[Len(db.columns)].id => db.cells[i].value = <<>>
    /\ (op = "createRow" /\ Len(db.rows) = 1 /\ Len(db.columns) = 3) =>
          /\ Len(FirstPage.rows) = 1
          /\ Len(FirstPage.rows[1].cells) = 3
          /\ \A k \in 1..3 : FirstPage.rows[1].cells[k].value = <<>>
          /\ FirstPage.totalCount = 1

C7_Witness ==
    /\ op = "createRow"
    /\ Len(db.rows) = 1
    /\ Len(db.columns) = 3
    /\ Len(db.cells) = 3

(* the filter of a call matches row r: its cell in the filter column holds *)
(* the text at some offset, letters compared without regard to case        *)
RowHasText(d, rowId, columnId, text) ==
    \E x \in CellsAt(d, rowId, columnId) :
        \E k \in 0..(Len(d.cells[x].value) - Len(text)) :
            \A n \in 1..Len(text) : Lower(d.cells[x].value[k + n]) = Lower(text[n])

FilterOnlyInput(input) == input.sorting = NoSort /\ FilterActive(input)

(* the positions, in the id-ordered row list, of the rows the filter matches *)
MatchingPositions(d, input) ==
    {i \in 1..Len(RowsOf(d, input.tableId)) :
        RowHasText(d, RowsOf(d, input.tableId)[i].id, input.filters[1].columnId,
                   input.filters[1].query)}

(* C17: with a filter and no sort getTableData returns exactly the         *)
(* matching rows at offsets [c, min(c+L, M)) of the M matching rows taken  *)
(* in id order, with their cells, and nextCursor = c+L when M > c+L and    *)
(* null otherwise: no other row is returned and none is left out.          *)
C17_FilterOnly ==
    (call # <<>> /\ FilterOnlyInput(call[1].input)) =>
        LET input == call[1].input
            res == call[1].result
            all == RowsOf(db, input.tableId)
            pos == MatchingPositions(db, input)
            M == Cardinality(pos)
            c == IF input.cursor = NULL THEN 0 ELSE input.cursor
            L == input.limit
        IN /\ res.ok
           /\ Len(res.rows) = Max(0, Min(c + L, M) - c)
           /\ \A i \in 1..Len(res.rows) :
                 \E p \in pos :
                    /\ Cardinality({q \in pos : q < p}) = c + i - 1
                    /\ res.rows[i].id = all[p].id
                    /\ res.rows[i].cells = CellsOfRow(db, all[p].id)
           /\ res.nextCursor = (IF M > c + L THEN c + L ELSE NULL)

(* a second page of matching rows, read past a row that does not match *)
C17_Witness ==
    /\ call # <<>>
    /\ FilterOnlyInput(call[1].input)
    /\ call[1].input.limit = 1
    /\ call[1].input.cursor = 1
    /\ Len(call[1].result.rows) = 1
    /\ 1 \notin MatchingPositions(db, call[1].input)
    /\ call[1].result.rows[1].id = db.rows[3].id

(* C18: the totalCount of a filtered query is the number of rows that      *)
(* match the filter.                                                       *)
C18_TotalCountHonorsFilter ==
    (call # <<>> /\ FilterOnlyInput(call[1].input)) =>
        /\ call[1].result.ok
        /\ call[1].result.totalCount = Cardinality(MatchingPositions(db, call[1].input))

(* the code points of the characters that occur in cell values *)
CharCode(ch) ==
    CASE ch = "0" -> 48 [] ch = "1" -> 49 [] ch = "2" -> 50 [] ch = "3" -> 51
      [] ch = "A" -> 65 [] ch = "B" -> 66
      [] ch = "a" -> 97 [] ch = "b" -> 98 [] ch = "c" -> 99
      [] OTHER -> 0

(* s comes before t in the order of text values *)
RECURSIVE TextLess(_, _)
TextLess(s, t) ==
    IF t = <<>> THEN FALSE
    ELSE IF s = <<>> THEN TRUE
    ELSE IF CharCode(Head(s)) # CharCode(Head(t)) THEN CharCode(Head(s)) < CharCode(Head(t))
    ELSE TextLess(Tail(s), Tail(t))

(* the value of the row's cell in the column *)
ValueIn(row, columnId) == FindCell(row, columnId)[1].value

(* C19: with a sort descriptor getTableData answers with rows ordered by   *)
(* the value of the sort column in the requested direction, rows of equal  *)
(* value in creation (id) order.                                           *)
C19_SortOnly ==
    (call # <<>> /\ call[1].input.sorting # NoSort) =>
        LET res == call[1].result
            by == call[1].input.sorting[1]
        IN /\ res.ok
           /\ \A a \in 1..Len(res.rows), b \in 1..Len(res.rows) :
                 a < b =>
                    LET va == ValueIn(res.rows[a], by.columnId)
                        vb == ValueIn(res.rows[b], by.columnId)
                    IN \/ (by.direction = "asc" /\ TextLess(va, vb))
                       \/ (by.direction = "desc" /\ TextLess(vb, va))
                       \/ (va = vb /\ res.rows[a].id < res.rows[b].id)

(* the type of the column of a table *)
TypeOf(d, columnId) ==
    (CHOOSE col \in Range(d.columns) : col.id = columnId).type

(* C20: a descending sort on a number column answers with rows in which no *)
(* value comes before the value of an earlier row when compared as text    *)
(* (3, 10, 1 stay in this order).                                          *)
C20_NumberSortedAsText ==
    (/\ call # <<>>
     /\ call[1].input.sorting # NoSort
     /\ call[1].input.sorting[1].direction = "desc"
     /\ TypeOf(db, call[1].input.sorting[1].columnId) = "number") =>
        /\ call[1].result.ok
        /\ \A a \in 1..(Len(call[1].result.rows) - 1) :
              ~(TextLess(ValueIn(call[1].result.rows[a], call[1].input.sorting[1].columnId),
                         ValueIn(call[1].result.rows[a + 1], call[1].input.sorting[1].columnId)))

(* C22: a getTableData call whose limit is outside 1..100 and a            *)
(* createBulkRows call whose count is outside 1..100000 fail, and rows,    *)
(* cells and columns are as before the call.                               *)
C22_OutOfRangeRejected ==
    [][/\ \A input \in RequestInputs :
             ((input.limit < 1 \/ input.limit > 100) /\ GetTableDataCall(input)) =>
                /\ db' = db
                /\ ~call'[1].result.ok
       /\ \A count \in RequestCounts :
             ((count < 1 \/ count > 100000) /\ CreateBulkRowsCall(count, <<>>)) =>
                /\ db' = db
                /\ call' # <<>> /\ ~call'[1].result.ok]_vars

(* a bulk call for more than 100000 rows was refused on a table that has   *)
(* rows and cells                                                          *)
C22_Witness ==
    /\ op = "createBulkRows"
    /\ call # <<>> /\ call[1].result = BadRequest
    /\ call[1].input.count > 100000
    /\ db.rows # <<>> /\ db.cells # <<>>

RECURSIVE SumOf(_)
SumOf(sizes) == IF sizes = <<>> THEN 0 ELSE Head(sizes) + SumOf(Tail(sizes))

(* C26: a createBulkRows call for count rows runs ceil(count / batchSize)  *)
(* batches, each of 1..batchSize rows, the sizes sum to count, it returns  *)
(* count as the created count and the table has count rows more.           *)
C26_BulkBatches ==
    [][\A count \in RequestCounts :
          (count >= 1 /\ count <= 100000) =>
             \A gen \in Generators(count) :
                CreateBulkRowsCall(count, gen) =>
                   LET res == createBulkRows(db, TableId, count, gen)
                       b == Len(res.sizes)
                   IN /\ (b - 1) * batchSize < count /\ count <= b * batchSize
                      /\ \A i \in 1..b : res.sizes[i] >= 1 /\ res.sizes[i] <= batchSize
                      /\ SumOf(res.sizes) = count
                      /\ res.count = count
                      /\ Len(RowsOf(db', TableId)) = Len(RowsOf(db, TableId)) + count]_vars

(* a call that needed a full batch and a shorter last batch *)
C26_Witness ==
    /\ op = "createBulkRows"
    /\ call = <<>>
    /\ Len(db.rows) > batchSize
    /\ Len(db.rows) < 2 * batchSize
    /\ \A i \in 1..(batchSize - 1) : db.rows[i + 1].id = db.rows[i].id + 1
    /\ db.rows[batchSize + 1].id > db.rows[batchSize].id + 1
    /\ \A i \in 1..Len(db.rows) : CellsOfRow(db, db.rows[i].id) # <<>>

(* C30: once no createColumn call is in progress, the order values of the *)
(* table's columns are 0..n-1 in creation order.                           *)
C30_ColumnOrder ==
    pending = <<>> =>
       \A i \in 1..Len(db.columns) : db.columns[i].order = i - 1

(* C34: once the createRow and createColumn calls have completed, every    *)
(* row has exactly one cell for every column.                              *)
C34_OneCellPerRowAndColumn == pending = <<>> => Complete(db)

(* C35: once the createBulkRows and createRow calls have completed, no row *)
(* is left without cells and no row has a second set of cells: every row   *)
(* has one cell per column.                                                *)
C35_BatchCellsOwnRows ==
    pending = <<>> =>
       \A i \in 1..Len(db.rows) :
          /\ CellsOfRow(db, db.rows[i].id) # <<>>
          /\ Len(CellsOfRow(db, db.rows[i].id)) = Len(ColumnsOf(db, TableId))
          /\ \A j \in 1..Len(db.columns) :
                Cardinality(CellsAt(db, db.rows[i].id, db.columns[j].id)) = 1

(* C24: a getTableData call for a tableId that no table has fails (with    *)
(* NOT_FOUND) instead of returning a page.                                 *)
C24_MissingTableNotFound ==
    \A i \in 1..Len(call) :
       (/\ op = "getTableData"
        /\ ParseGetTableData(call[i].input)
        /\ call[i].input.tableId \notin Tables) => ~call[i].result.ok

----------------------------------------------------------------------------
(* Claims on the grid                                                      *)

(* the cells of a sequence of rows *)
FlatCellsOf(rows) == UNION {Range(rows[i].cells) : i \in 1..Len(rows)}

(* the values the cache entry of key k shows for the cell id *)
CachedValues(c, k, id) ==
    {cell.value : cell \in {x \in FlatCellsOf(FlatData(c[k].data)) : x.id = id}}

(* rows with the value of one cell replaced *)
WithValue(rows, id, value) ==
    Map(rows, LAMBDA row :
        [row EXCEPT !.cells = Map(@, LAMBDA cell :
            IF cell.id = id THEN [cell EXCEPT !.value = value] ELSE cell)])

(* the value the database holds for the cell id *)
ServerValues(id) == {cell.value : cell \in {x \in Range(db.cells) : x.id = id}}

(* C1: single commit round trip. For the first commit of a run, the step   *)
(* that applies its optimistic update (taken before the request is sent)   *)
(* leaves the flattened cache equal to what it was at the commit except    *)
(* that the committed cell shows the committed value; the step that        *)
(* reports the failure of that commit leaves the flattened cache exactly   *)
(* as it was at the commit.                                                *)
C1_SingleCommitRoundTrip ==
    [][/\ (op' = "onMutate" /\ commits = 1) =>
             /\ mutations[1].phase = "onMutate" /\ mutations'[1].phase = "sent"
             /\ FlatData(cache'[ActiveKey].data) =
                    WithValue(mutations[1].before, mutations[1].id, mutations[1].value)
             /\ CachedValues(cache', ActiveKey, mutations[1].id) = {mutations[1].value}
       /\ (op' = "onError" /\ commits = 1) =>
             FlatData(cache'[ActiveKey].data) = mutations[1].before]_vars

(* the only commit of the run was rejected and the cache shows the cell    *)
(* with another value than the rejected one                                *)
C1_Witness ==
    /\ op = "onError" /\ commits = 1 /\ mutations = <<>>
    /\ \E r \in rejected : /\ CachedValues(cache, ActiveKey, r[1]) # {}
                           /\ r[2] \notin CachedValues(cache, ActiveKey, r[1])

(* C2: once every commit has settled, no cached cell holds a value whose   *)
(* commit the server rejected (unless the server holds that very value).   *)
C2_NoRejectedValueCached ==
    mutations = <<>> =>
        \A r \in rejected :
            r[2] \in CachedValues(cache, ActiveKey, r[1]) => r[2] \in ServerValues(r[1])

(* C3: every page shown to the renderer was fetched for the active query:  *)
(* flatData never holds rows fetched for another View Query.               *)
C3_NoRowsOfPreviousQuery ==
    \A n \in 1..Len(Pages(Active.data)) : Pages(Active.data)[n].key = ActiveKey

(* the ids of a sequence of rows are pairwise distinct *)
NoRowTwice(rows) ==
    \A a \in 1..Len(rows), b \in 1..Len(rows) : a # b => rows[a].id # rows[b].id

(* the cursors of the pages: null first, then the nextCursor of the page   *)
(* before, which is the count of rows requested so far                     *)
CursorChain(data) ==
    /\ Len(PageParams(data)) = Len(Pages(data))
    /\ \A n \in 1..Len(Pages(data)) :
          /\ PageParams(data)[n] = IF n = 1 THEN NULL ELSE Pages(data)[n - 1].nextCursor
          /\ n > 1 => PageParams(data)[n] = (n - 1) * GridLimit

(* C4: cache consistency. In every cache entry whose pages were all        *)
(* fetched for the entry's own query, the flattened rows hold no row twice *)
(* and the pages follow the cursors issued without a gap.                  *)
C4_CacheConsistency ==
    \A k \in GridKeys :
        (\A n \in 1..Len(Pages(cache[k].data)) : Pages(cache[k].data)[n].key = k) =>
            /\ NoRowTwice(FlatData(cache[k].data))
            /\ CursorChain(cache[k].data)

(* C8: no two updateCell commits on the same cell are in flight together.  *)
C8_OneCommitPerCell ==
    \A a \in 1..Len(mutations), b \in 1..Len(mutations) :
        a # b => mutations[a].id # mutations[b].id

(* C9 as stated: a commit whose optimistic update has not been applied yet *)
(* exists only while the controller still edits the committed cell.        *)
C9_UpdateBeforeIdle ==
    \A n \in 1..Len(mutations) :
        mutations[n].phase = "onMutate" =>
            editingCell # <<>> /\ editingCell[1].cellId = mutations[n].id

(* C9: a blur, Enter or Tab on the <input> issues an updateCell commit     *)
(* with the id of the edited cell and the draft; the next step after it    *)
(* applies the optimistic update of that commit, before any other event    *)
(* is handled and before the request is sent.                              *)
C9_CommitOnLeave ==
    [][/\ op' \in {"Blur", "Enter", "Tab"} =>
             /\ editingCell # <<>>
             /\ Len(mutations') = Len(mutations) + 1
             /\ mutations'[Len(mutations')].id = editingCell[1].cellId
             /\ mutations'[Len(mutations')].value = editingCell[1].value
             /\ mutations'[Len(mutations')].phase = "onMutate"
       /\ ~Quiet =>
             /\ op' = "onMutate"
             /\ \E n \in 1..Len(mutations) :
                   /\ mutations[n].phase = "onMutate" /\ mutations'[n].phase = "sent"
                   /\ CachedValues(cache', mutations[n].key, mutations[n].id)
                          \subseteq {mutations[n].value}]_vars

(* the <input> was left by blur: the commit is issued, the controller is   *)
(* idle and the optimistic update is still to come                         *)
C9_Witness ==
    /\ op = "Blur" /\ editingCell = <<>>
    /\ mutations # <<>> /\ mutations[Len(mutations)].phase = "onMutate"
    /\ mutations[Len(mutations)].value \in DraftValues

(* C10: Escape ends the edit, issues no mutation and leaves the cache and  *)
(* the database as they are.                                               *)
C10_EscapeDiscards ==
    [][op' = "Escape" =>
          /\ editingCell # <<>> /\ editingCell' = <<>>
          /\ mutations' = mutations /\ commits' = commits
          /\ cache' = cache /\ db' = db]_vars

(* Escape was pressed on the <input> of a loaded row *)
C10_Witness ==
    /\ op = "Escape" /\ editingCell = <<>>
    /\ flatData # <<>>

(* C11: a click on a cell that is not being edited opens the editor on it  *)
(* with the cell's row, column and cell id and its cached value as the     *)
(* draft; the click issues no mutation and changes neither cache nor       *)
(* database.                                                               *)
C11_ClickOpensEditor ==
    [][op' = "Click" =>
          /\ mutations' = mutations /\ commits' = commits
          /\ cache' = cache /\ db' = db
          /\ editingCell' # <<>>
          /\ \E i \in 1..Len(flatData), j \in 1..Len(columns) :
                /\ ~InputAt(i, j)
                /\ flatData[i].id = editingCell'[1].rowId
                /\ columns[j].id = editingCell'[1].columnId
                /\ \E cell \in Range(flatData[i].cells) :
                      /\ cell.columnId = columns[j].id
                      /\ cell.id = editingCell'[1].cellId
                      /\ cell.value = editingCell'[1].value]_vars

(* the click opened a cell whose cached value is an optimistic one: the    *)
(* draft is the cached value, not the value the server holds               *)
C11_Witness ==
    /\ op = "Click" /\ editingCell # <<>>
    /\ editingCell[1].value # <<>>
    /\ editingCell[1].value \notin ServerValues(editingCell[1].cellId)

(* C12: Enter on the <input> at row i, column j commits the draft and      *)
(* opens the cell of row i+1 (at most the last loaded row), column j.      *)
C12_EnterOpensNextRow ==
    [][op' = "Enter" =>
          \E i \in 1..Len(flatData), j \in 1..Len(columns) :
             /\ InputAt(i, j)
             /\ Len(mutations') = Len(mutations) + 1
             /\ editingCell' # <<>>
             /\ editingCell'[1].rowId = flatData[Min(i + 1, Len(flatData))].id
             /\ editingCell'[1].columnId = columns[j].id]_vars

(* C13: a Tab or arrow key that moves the editor to another cell issues an *)
(* updateCell commit with the id and the draft of the cell it leaves.      *)
C13_NavigationCommits ==
    [][(/\ op' \in {"Tab", "Arrow"}
        /\ editingCell' # <<>>
        /\ editingCell'[1].cellId # editingCell[1].cellId) =>
          /\ Len(mutations') = Len(mutations) + 1
          /\ mutations'[Len(mutations')].id = editingCell[1].cellId
          /\ mutations'[Len(mutations')].value = editingCell[1].value]_vars

(* C14: the scroll handler and the Tab handler start a page fetch only     *)
(* when a next page exists and no fetch of the active query is in flight;  *)
(* the fetch they start extends the pages applied so far, its cursor is    *)
(* the nextCursor of the last applied page and larger than every cursor    *)
(* requested for those pages; the page it brings is stored under that      *)
(* cursor.                                                                 *)
C14_OneFetchInCursorOrder ==
    [][/\ op' = "Scroll" => cache' # cache
       /\ (op' \in {"Scroll", "Tab"} /\ cache' # cache) =>
             /\ hasNextPage /\ ~isFetching
             /\ \A k \in GridKeys \ {ActiveKey} : cache'[k] = cache[k]
             /\ cache'[ActiveKey].data = Active.data
             /\ cache'[ActiveKey].fetch =
                    <<[kind |-> "next", old |-> Active.data, failureCount |-> 0]>>
             /\ \A n \in 1..Len(PageParams(Active.data)) :
                   PageParams(Active.data)[n] < NextPageParam(Active.data)
       /\ op' = "FetchSettle" =>
             \A k \in GridKeys :
                (/\ cache[k].fetch # <<>> /\ cache[k].fetch[1].kind = "next"
                 /\ cache'[k].fetch = <<>> /\ cache'[k].data # cache[k].data) =>
                   /\ Pages(cache'[k].data) =
                          Append(Pages(cache[k].fetch[1].old),
                                 Pages(cache'[k].data)[Len(Pages(cache'[k].data))])
                   /\ PageParams(cache'[k].data) =
                          Append(PageParams(cache[k].fetch[1].old),
                                 NextPageParam(cache[k].fetch[1].old))]_vars

(* Tab on the last cell of the last loaded row has started the fetch of    *)
(* the next page                                                           *)
C14_Witness ==
    /\ op = "Tab"
    /\ isFetching /\ Active.fetch[1].kind = "next"
    /\ NextPageParam(Active.fetch[1].old) = GridLimit

ViewChanges == {"Sort", "Debounce", "FilterColumn"}

C16_SortCycle ==
    [][\A j \in 1..MaxCols :
          HandleSortColumn(j) =>
             LET c == columns[j].id
                 asc == <<[columnId |-> c, direction |-> "asc"]>>
                 desc == <<[columnId |-> c, direction |-> "desc"]>>
             IN /\ Len(sorting') <= 1
                /\ sorting = NoSort => sorting' = asc
                /\ sorting = asc => sorting' = desc
                /\ sorting = desc => sorting' = NoSort
                /\ sorting \notin {NoSort, asc, desc} => sorting' = asc]_vars

(* the third click on one header: the sort is cleared again *)
C16_Witness ==
    /\ op = "Sort"
    /\ sorting = NoSort

(* C23: when onError of a commit runs (rollback and error toast), the      *)
(* updateCell request of that commit has been sent exactly once.           *)
C23_RejectedSentOnce ==
    [][op' = "onError" =>
          \E n \in 1..Len(mutations) :
             /\ mutations' = RemoveAt(mutations, n)
             /\ mutations[n].failureCount + 1 = 1]_vars

(* C25: when a createBulkRows call settles, with success or with failure,  *)
(* the query on screen is fetched again from its first page.               *)
C25_InvalidatedOnSettle ==
    [][op' \in {"bulkSuccess", "bulkError"} =>
          /\ cache'[ActiveKey].fetch # <<>>
          /\ cache'[ActiveKey].fetch[1].kind = "all"]_vars

(* new differs from old at most in the value of the cell with this id,     *)
(* which is the given value                                                *)
PointUpdated(old, new, id, value) ==
    /\ PageParams(new) = PageParams(old)
    /\ Len(Pages(new)) = Len(Pages(old))
    /\ \A p \in 1..Len(Pages(old)) :
          LET op1 == Pages(old)[p]
              np == Pages(new)[p]
          IN /\ [np EXCEPT !.rows = op1.rows] = op1
             /\ Len(np.rows) = Len(op1.rows)
             /\ \A r \in 1..Len(op1.rows) :
                   /\ np.rows[r].id = op1.rows[r].id
                   /\ Len(np.rows[r].cells) = Len(op1.rows[r].cells)
                   /\ \A c \in 1..Len(op1.rows[r].cells) :
                         LET oc == op1.rows[r].cells[c]
                             nc == np.rows[r].cells[c]
                         IN /\ [nc EXCEPT !.value = oc.value] = oc
                            /\ nc.value = IF oc.id = id THEN value ELSE oc.value

(* C27: the optimistic update of any cached pages with any cell id and     *)
(* value changes only the value of the cell with that id: pages, page      *)
(* params, rows and their order, the other cells, nextCursor and           *)
(* totalCount stay; for an id that is in no cached row nothing changes.    *)
C27_PointUpdateFrame ==
    \A k \in GridKeys :
       cache[k].data # NoData =>
          \A id \in 1..db.nextId, value \in DraftValues :
             LET new == OptimisticData(cache[k].data, [id |-> id, value |-> value])
             IN /\ PointUpdated(cache[k].data, new, id, value)
                /\ (\A r \in 1..Len(FlatData(cache[k].data)) :
                       \A c \in 1..Len(FlatData(cache[k].data)[r].cells) :
                          FlatData(cache[k].data)[r].cells[c].id # id)
                   => new = cache[k].data

(* onMutate has written a new value into one cell of the second of two     *)
(* cached pages                                                            *)
C27_Witness ==
    /\ op = "onMutate"
    /\ Len(Pages(Active.data)) >= 2
    /\ \E n \in 1..Len(mutations) :
          /\ mutations[n].phase = "sent"
          /\ mutations[n].previousData # Active.data
          /\ Pages(mutations[n].previousData)[1] = Pages(Active.data)[1]
          /\ PointUpdated(mutations[n].previousData, Active.data,
                          mutations[n].id, mutations[n].value)

(* C29: the virtualizer's count is the number of loaded rows, plus one     *)
(* exactly when the last cached page names a next cursor; of the indices   *)
(* below the count, those below the number of loaded rows are rendered as  *)
(* that data row and the one at it as the loader slot.                     *)
C29_LoaderSlot ==
    LET pages == Pages(Active.data)
        more == pages # <<>> /\ pages[Len(pages)].nextCursor # NULL
        loaded == Len(FlatRows(pages))
    IN /\ VirtualCount = IF more THEN loaded + 1 ELSE loaded
       /\ \A index \in 0..(VirtualCount - 1) :
             /\ index >= loaded <=> RenderItem(index).kind = "loader"
             /\ index < loaded =>
                   /\ RenderItem(index).kind = "row"
                   /\ RenderItem(index).rowId = FlatRows(pages)[index + 1].id
             /\ RenderItem(index).kind = "loader" => (index = loaded /\ more)

(* rows are loaded and a next page exists: the loader slot is addressable  *)
C29_Witness ==
    /\ GridRendered
    /\ Len(flatData) >= 1
    /\ hasNextPage
    /\ RenderItem(VirtualCount - 1).kind = "loader"
    /\ RenderItem(VirtualCount - 2).kind = "row"

(* C31: the rollback of a failed commit on one cell leaves the cached      *)
(* value of every other cell whose commit is in flight as it was.          *)
C31_RollbackOnlyOwnCell ==
    [][op' = "onError" =>
          \A f \in 1..Len(mutations) :
             mutations' = RemoveAt(mutations, f) =>
                \A n \in 1..Len(mutations) :
                   (/\ mutations[n].phase = "sent"
                    /\ mutations[n].id # mutations[f].id) =>
                      CachedValues(cache', mutations[n].key, mutations[n].id) =
                         CachedValues(cache, mutations[n].key, mutations[n].id)]_vars

(* C32: Tab at row i, column j opens the next column of the row, or the    *)
(* first column of row i+1 after the last column; Shift+Tab opens the      *)
(* column before, or the last column of row i-1 before the first column;   *)
(* this whenever that row is loaded, and then the opposite key leads back  *)
(* from the opened cell to row i, column j.                                *)
C32_TabOrder ==
    [][\A p \in Positions, shift \in BOOLEAN :
          KeyTab(p[1], p[2], shift) =>
             LET i == p[1]
                 j == p[2]
                 last == Len(columns)
                 row == IF shift THEN (IF j = 1 THEN i - 1 ELSE i)
                        ELSE (IF j = last THEN i + 1 ELSE i)
                 col == IF shift THEN (IF j = 1 THEN last ELSE j - 1)
                        ELSE (IF j = last THEN 1 ELSE j + 1)
             IN row \in 1..Len(flatData) =>
                   /\ editingCell' # <<>>
                   /\ editingCell'[1].rowId = flatData[row].id
                   /\ editingCell'[1].columnId = columns[col].id
                   /\ \E cell \in Range(flatData[row].cells) :
                         /\ cell.columnId = columns[col].id
                         /\ cell.id = editingCell'[1].cellId
                   /\ TabTarget(row, col, ~shift) = [row |-> i, col |-> j]]_vars

(* after two commits a Tab key has opened the first cell of the second     *)
(* row: Tab from the last column of the first row, or Shift+Tab from the   *)
(* second column of the second row                                         *)
C32_Witness ==
    /\ op = "Tab" /\ commits = 2
    /\ Len(flatData) >= 2
    /\ editingCell # <<>>
    /\ editingCell[1].rowId = flatData[2].id
    /\ editingCell[1].columnId = columns[1].id

(* the editor is on the cell of this row and column of the loaded rows *)
OpensCell(row, col) ==
    /\ editingCell' # <<>>
    /\ editingCell'[1].rowId = flatData[row].id
    /\ editingCell'[1].columnId = columns[col].id
    /\ \E cell \in Range(flatData[row].cells) :
          cell.columnId = columns[col].id /\ cell.id = editingCell'[1].cellId

(* Tab past the last cell of the last loaded row, and Shift+Tab before the *)
(* first cell of the first row: the fetch and the clamped selection        *)
TabClamps ==
    \A p \in Positions, shift \in BOOLEAN :
       KeyTab(p[1], p[2], shift) =>
          /\ (~shift /\ p[2] = Len(columns) /\ p[1] = Len(flatData)) =>
                /\ (cache' # cache) <=> (hasNextPage /\ ~isFetching)
                /\ cache' # cache => cache'[ActiveKey].fetch[1].kind = "next"
                /\ OpensCell(Len(flatData), 1)
          /\ (shift /\ p[2] = 1 /\ p[1] = 1) => OpensCell(1, Len(columns))

(* Enter on the last loaded row: the fetch and the clamped selection *)
EnterClamps ==
    \A p \in Positions :
       (KeyEnter(p[1], p[2]) /\ p[1] = Len(flatData)) =>
          /\ (cache' # cache) <=> (hasNextPage /\ ~isFetching)
          /\ OpensCell(Len(flatData), p[2])

(* C33: when Enter or Tab leads past the last loaded row, fetchNextPage is *)
(* called exactly when a next page exists and no fetch is in flight, and   *)
(* the cell of the last loaded row is opened; Shift+Tab before the first   *)
(* row opens a cell of the first row.                                      *)
C33_ClampAndFetch == [][TabClamps /\ EnterClamps]_vars

(* C36: convergence after a successful commit. Once the only commit of the *)
(* run has succeeded, no mutation is pending and every fetch has settled,  *)
(* each cell the cache shows holds the value the server holds for it, also *)
(* when a refetch started by an invalidation overlapped the commit.        *)
C36_ConvergesAfterCommit ==
    (/\ commits = 1 /\ mutations = <<>> /\ rejected = {}
     /\ \A k \in GridKeys : cache[k].fetch = <<>>) =>
        \A x \in Range(db.cells) :
            CachedValues(cache, ActiveKey, x.id) \subseteq ServerValues(x.id)

(* C37: rollback key. The step that reports the failure of a commit        *)
(* changes no cache entry but the one the snapshot was read from: every    *)
(* page of the restored snapshot was fetched under the key of the entry    *)
(* that the rollback writes.                                               *)
C37_RollbackKeepsKey ==
    [][op' = "onError" =>
          \A f \in 1..Len(mutations) :
             (/\ mutations[f].phase = "sent"
              /\ mutations[f].failureCount >= MutationRetry
              /\ mutations' = RemoveAt(mutations, f)) =>
                \A k \in GridKeys :
                   cache'[k] # cache[k] =>
                      \A n \in 1..Len(Pages(mutations[f].previousData)) :
                         Pages(mutations[f].previousData)[n].key = k]_vars

C39_AtMostCountRows ==
    [][op' \in {"bulkSuccess", "bulkRetry", "bulkError"} =>
          \A n \in 1..Len(mutations) :
             mutations[n].phase = "bulk" => Len(db'.rows) <= mutations[n].count]_vars

============================================================================
